---- MODULE Spec2Model ----
(***************************************************************************)
(* Model of lib/git-graph-model (mapPostsToGraph) of the blog.             *)
(*                                                                         *)
(* JavaScript strings that the code inspects or concatenates (tags, slugs, *)
(* node ids, branch ids) are sequences of one-character strings, so that   *)
(* toLowerCase, slug and template-literal concatenation are computed       *)
(* character by character.  Strings the code only copies (colours, node    *)
(* types, titles) are plain TLA+ strings.  The JavaScript value undefined  *)
(* is the string "undefined"; the draft flag is "true", "false" or         *)
(* "undefined".                                                            *)
(***************************************************************************)
EXTENDS Integers, Sequences, FiniteSets, TLC

VARIABLES posts, tz, layout, pc, publishedPosts, branches, nodes, edges, today, prev,
          frontmatter, category, valid, rawTag, rawPage, home

(* The state of the category functions and of the home page, which a call *)
(* of mapPostsToGraph neither reads nor writes                             *)
elsewhere == <<frontmatter, category, valid, rawTag, rawPage, home>>

vars == <<posts, tz, layout, pc, publishedPosts, branches, nodes, edges, today, prev,
          elsewhere>>

----------------------------------------------------------------------------
(* Bounds of the model *)

MaxPosts == 3

----------------------------------------------------------------------------
(* LAYOUT_CONSTANTS *)

ROW_HEIGHT == 48
PADDING_TOP == 24
PADDING_BOTTOM == 24
MAIN_X == 150
BRANCH_SPACING == 80
LABEL_WIDTH == 100

(* The object the code reads its layout from.  A run carries its layout in *)
(* the variable layout, which is LAYOUT_CONSTANTS in the program as shipped. *)
LAYOUT_CONSTANTS ==
    [ROW_HEIGHT |-> ROW_HEIGHT, PADDING_TOP |-> PADDING_TOP,
     PADDING_BOTTOM |-> PADDING_BOTTOM, MAIN_X |-> MAIN_X,
     BRANCH_SPACING |-> BRANCH_SPACING, LABEL_WIDTH |-> LABEL_WIDTH]

----------------------------------------------------------------------------
(* Strings as character sequences *)

Undefined == "undefined"

(* An optional value (T | null | undefined) is <<>> when absent and <<v>>  *)
(* when present.                                                           *)
None == <<>>
Some(v) == <<v>>

UpperChars == <<"A","B","C","D","E","F","G","H","I","J","K","L","M",
                "N","O","P","Q","R","S","T","U","V","W","X","Y","Z">>
LowerChars == <<"a","b","c","d","e","f","g","h","i","j","k","l","m",
                "n","o","p","q","r","s","t","u","v","w","x","y","z">>
DigitChars == <<"0","1","2","3","4","5","6","7","8","9">>

IndexOf(seq, c) ==
    IF \E k \in 1..Len(seq) : seq[k] = c
    THEN CHOOSE k \in 1..Len(seq) : seq[k] = c
    ELSE 0

CharSet(seq) == { seq[k] : k \in 1..Len(seq) }

LowerOf == [c \in CharSet(UpperChars) |-> LowerChars[IndexOf(UpperChars, c)]]

(* String.prototype.toLowerCase, one character *)
ToLowerChar(c) == IF c \in DOMAIN LowerOf THEN LowerOf[c] ELSE c

(* String.prototype.toLowerCase *)
ToLowerCase(s) == [k \in 1..Len(s) |-> ToLowerChar(s[k])]

(* Characters that github-slugger keeps: letters, digits, "-", "_" and the *)
(* space (which it then turns into "-"); punctuation is removed.           *)
KeptChars ==
    CharSet(LowerChars) \cup CharSet(UpperChars) \cup CharSet(DigitChars) \cup {"-", "_", " "}

SlugKeeps(c) == c \in KeptChars

RECURSIVE SlugChars(_)
SlugChars(s) ==
    IF s = <<>> THEN <<>>
    ELSE LET c == Head(s)
             rest == SlugChars(Tail(s))
         IN  IF ~SlugKeeps(c) THEN rest
             ELSE IF c = " " THEN <<"-">> \o rest
             ELSE <<c>> \o rest

(* slug(value) of github-slugger: lower-case, drop the characters outside  *)
(* the kept classes, replace each space by a hyphen.                       *)
slug(value) == SlugChars(ToLowerCase(value))

(* Collation order of the characters that occur after toLowerCase:         *)
(* whitespace and punctuation sort before digits, digits before letters.   *)
Collation == <<" ", "_", "-", "!">> \o DigitChars \o LowerChars

RankOf == [c \in CharSet(Collation) |-> IndexOf(Collation, c)]

CharRank(c) == IF c \in DOMAIN RankOf THEN RankOf[c] ELSE 0

(* String.prototype.localeCompare on two lower-cased strings: -1, 0 or 1 *)
RECURSIVE localeCompare(_, _)
localeCompare(a, b) ==
    IF a = <<>> /\ b = <<>> THEN 0
    ELSE IF a = <<>> THEN -1
    ELSE IF b = <<>> THEN 1
    ELSE IF CharRank(Head(a)) < CharRank(Head(b)) THEN -1
    ELSE IF CharRank(Head(a)) > CharRank(Head(b)) THEN 1
    ELSE localeCompare(Tail(a), Tail(b))

(* String(n) for a natural number *)
RECURSIVE NumStr(_)
NumStr(n) ==
    IF n < 10 THEN <<DigitChars[n + 1]>>
    ELSE NumStr(n \div 10) \o <<DigitChars[(n % 10) + 1]>>

(* padStart(2, "0") as toISOString pads month and day *)
Pad2(n) == IF n < 10 THEN <<"0">> \o NumStr(n) ELSE NumStr(n)

MainStr == <<"m","a","i","n">>
CommitPrefix == <<"c","o","m","m","i","t","-">>
MergePrefix == <<"m","e","r","g","e","-">>
EdgePrefix == <<"e","d","g","e","-">>
SeparatorYearPrefix == <<"s","e","p","a","r","a","t","o","r","-","y","e","a","r","-">>
SeparatorMonthPrefix == <<"s","e","p","a","r","a","t","o","r","-","m","o","n","t","h","-">>
TodayMarkerId == <<"t","o","d","a","y","-","m","a","r","k","e","r">>

----------------------------------------------------------------------------
(* Dates.  A post's date is the ISO string of a UTC midnight, kept as the  *)
(* record [year, month, day] (month 1..12).  new Date(post.date) is that   *)
(* instant; getFullYear, getMonth and setHours(0,0,0,0) read it in the     *)
(* local time zone tz (sign of the UTC offset: -1 west, 0 UTC, 1 east).    *)

IsLeap(y) == (y % 4 = 0 /\ y % 100 # 0) \/ y % 400 = 0

DaysIn(y, m) ==
    IF m = 2 THEN (IF IsLeap(y) THEN 29 ELSE 28)
    ELSE IF m \in {4, 6, 9, 11} THEN 30 ELSE 31

PrevDay(d) ==
    IF d.day > 1 THEN [d EXCEPT !.day = d.day - 1]
    ELSE IF d.month > 1
         THEN [year |-> d.year, month |-> d.month - 1, day |-> DaysIn(d.year, d.month - 1)]
         ELSE [year |-> d.year - 1, month |-> 12, day |-> 31]

(* Local calendar day of the UTC midnight of date d *)
LocalDate(d, zone) == IF zone < 0 THEN PrevDay(d) ELSE d

getFullYear(d, zone) == LocalDate(d, zone).year
getMonth(d, zone) == LocalDate(d, zone).month - 1

(* getTime() after setHours(0,0,0,0), up to a strictly monotone rescaling *)
DayTime(d) == (d.year * 12 + (d.month - 1)) * 31 + (d.day - 1)

(* toISOString().split('T')[0] of the local midnight of local day d *)
IsoDay(d, zone) ==
    LET u == IF zone > 0 THEN PrevDay(d) ELSE d
    IN  NumStr(u.year) \o <<"-">> \o Pad2(u.month) \o <<"-">> \o Pad2(u.day)

monthNames == << <<"J","a","n">>, <<"F","e","b">>, <<"M","a","r">>,
                <<"A","p","r">>, <<"M","a","y">>, <<"J","u","n">>,
                <<"J","u","l">>, <<"A","u","g">>, <<"S","e","p">>,
                <<"O","c","t">>, <<"N","o","v">>, <<"D","e","c">> >>

----------------------------------------------------------------------------
(* mapPostsToGraph, phase by phase *)

(* Faults of the draft filter: a strict test for false, and no filter *)
FilterDrafts_OnlyFalse(ps) == SelectSeq(ps, LAMBDA post : post.draft = "false")
FilterDrafts_KeepAll(ps) == ps

(* posts.filter((post) => !post.draft) *)
FilterDrafts(ps) == SelectSeq(ps, LAMBDA post : post.draft # "true")

(* post.tags && post.tags.length > 0 *)
HasTags(post) == post.tags # None /\ Len(post.tags[1]) > 0

(* The Set of primary tags, in insertion order (a JavaScript Set iterates  *)
(* in insertion order and ignores the add of a member it already holds).   *)
RECURSIVE CollectTags(_, _)
CollectTags(pub, acc) ==
    IF pub = <<>> THEN acc
    ELSE LET post == Head(pub)
             t == post.tags[1][1]
         IN  IF HasTags(post) /\ ~(\E k \in 1..Len(acc) : acc[k] = t)
             THEN CollectTags(Tail(pub), Append(acc, t))
             ELSE CollectTags(Tail(pub), acc)

(* The comparator of the sort: a.toLowerCase().localeCompare(b.toLowerCase()) *)
CompareTags(a, b) == localeCompare(ToLowerCase(a), ToLowerCase(b))

(* Array.prototype.sort is stable: t goes after every element that does    *)
(* not compare greater than it.                                            *)
RECURSIVE InsertSorted(_, _)
InsertSorted(sorted, t) ==
    IF sorted = <<>> THEN <<t>>
    ELSE IF CompareTags(Head(sorted), t) > 0 THEN <<t>> \o sorted
    ELSE <<Head(sorted)>> \o InsertSorted(Tail(sorted), t)

(* Fault of the sort: the tags stay in insertion order *)
SortTags_Unsorted(tags, acc) == acc \o tags

RECURSIVE SortTags(_, _)
SortTags(tags, acc) ==
    IF tags = <<>> THEN acc
    ELSE SortTags(Tail(tags), InsertSorted(acc, Head(tags)))

colors == <<"#3b82f6", "#10b981", "#f59e0b", "#ef4444",
            "#8b5cf6", "#ec4899", "#06b6d4", "#f97316">>

(* Fault of the palette: past its end the index is clamped, not wrapped *)
getBranchColor_NoWrap(i) == colors[IF i < Len(colors) THEN i + 1 ELSE Len(colors)]

getBranchColor(i) == colors[(i % Len(colors)) + 1]

MainBranch == [id |-> MainStr, name |-> MainStr, color |-> "#6b7280", x |-> layout.MAIN_X]

(* Fault of the lane rule: lanes counted outwards from the main lane by   *)
(* rank, so that the first tag is the nearest to main                      *)
TagBranch_RankFromMain(sortedTags, i) ==
    [id |-> slug(sortedTags[i + 1]),
     name |-> sortedTags[i + 1],
     color |-> getBranchColor(i),
     x |-> layout.MAIN_X - (i + 1) * layout.BRANCH_SPACING]

(* The tag branch of the tag at 0-based rank i of sortedTags *)
TagBranch(sortedTags, i) ==
    [id |-> slug(sortedTags[i + 1]),
     name |-> sortedTags[i + 1],
     color |-> getBranchColor(i),
     x |-> layout.MAIN_X - (Len(sortedTags) - i) * layout.BRANCH_SPACING]

BuildBranches(sortedTags) ==
    <<MainBranch>> \o [k \in 1..Len(sortedTags) |-> TagBranch(sortedTags, k - 1)]

(* new Map(branches.map((b) => [b.id, b])).get(id): a later entry with the *)
(* same key replaces the earlier one.                                      *)
BranchMapGet(brs, id) ==
    LET hits == {k \in 1..Len(brs) : brs[k].id = id}
    IN  IF hits = {} THEN None
        ELSE Some(brs[CHOOSE k \in hits : \A j \in hits : j <= k])

(* Fault of the row rule: rows counted from one *)
RowY_FromOne(i) == layout.PADDING_TOP + (i + 1) * layout.ROW_HEIGHT

RowY(i) == layout.PADDING_TOP + i * layout.ROW_HEIGHT

CommitNode(id, branchId, post, x, y) ==
    [id |-> id, type |-> "commit", branch |-> branchId, slug |-> post.slug,
     title |-> post.title, summary |-> post.summary, date |-> post.date,
     x |-> x, y |-> y, testid |-> "git-commit-node",
     dataSlug |-> post.slug, dataBranch |-> branchId]

(* Fault of the merge dot: placed at the left edge instead of the main rail *)
MergeNode_AtLeftEdge(id, post, y) ==
    [id |-> id, type |-> "merge", branch |-> MainStr, slug |-> post.slug,
     date |-> post.date, x |-> 0, y |-> y]

MergeNode(id, post, y) ==
    [id |-> id, type |-> "merge", branch |-> MainStr, slug |-> post.slug,
     date |-> post.date, x |-> layout.MAIN_X, y |-> y]

(* Fault of the first forEach: the merge node of a tagged post is not pushed *)
EmitPost_NoMergeNode(post, i, brs) ==
    LET primaryTag == IF HasTags(post) THEN Some(post.tags[1][1]) ELSE None
        truthyTag == primaryTag # None /\ primaryTag[1] # <<>>
        branchId == IF truthyTag THEN slug(primaryTag[1]) ELSE MainStr
        commitId == CommitPrefix \o branchId \o <<"-">> \o post.slug
        mergeId == MergePrefix \o post.slug
    IN  [nodes |-> <<CommitNode(commitId, branchId, post, layout.MAIN_X, RowY(i))>>,
         edges |-> IF truthyTag
                   THEN <<[id |-> EdgePrefix \o commitId \o <<"-">> \o mergeId,
                           from |-> commitId, to |-> mergeId,
                           type |-> "merge-connector"]>>
                   ELSE <<>>]

(* Body of the first forEach: the nodes and edges pushed for the post at   *)
(* 0-based index i of publishedPosts.                                      *)
EmitPost(post, i, brs) ==
    LET primaryTag == IF HasTags(post) THEN Some(post.tags[1][1]) ELSE None
        truthyTag == primaryTag # None /\ primaryTag[1] # <<>>
        branchId == IF truthyTag THEN slug(primaryTag[1]) ELSE MainStr
        branch == BranchMapGet(brs, branchId)
        y == RowY(i)
    IN  IF truthyTag /\ branch # None
        THEN LET commitId == CommitPrefix \o branchId \o <<"-">> \o post.slug
                 mergeId == MergePrefix \o post.slug
             IN  [nodes |-> <<CommitNode(commitId, branchId, post, branch[1].x, y),
                              MergeNode(mergeId, post, y)>>,
                  edges |-> <<[id |-> EdgePrefix \o commitId \o <<"-">> \o mergeId,
                               from |-> commitId, to |-> mergeId,
                               type |-> "merge-connector"]>>]
        ELSE LET commitId == CommitPrefix \o MainStr \o <<"-">> \o post.slug
             IN  [nodes |-> <<CommitNode(commitId, MainStr, post, layout.MAIN_X, y)>>,
                  edges |-> <<>>]

(* Fault of the separator rule: the month separator does not require the  *)
(* year to be unchanged                                                    *)
EmitSeparators_MonthAlways(post, i, lastY, lastM, zone) ==
    LET year == getFullYear(post.date, zone)
        month == getMonth(post.date, zone)
        y == RowY(i)
        yearSep == IF i > 0 /\ lastY # None /\ year # lastY[1]
                   THEN <<[id |-> SeparatorYearPrefix \o NumStr(year),
                           type |-> "separator", label |-> NumStr(year),
                           kind |-> "year", x |-> 0, y |-> y - layout.ROW_HEIGHT \div 2]>>
                   ELSE <<>>
        monthSep == IF i > 0 /\ lastM # None /\ month # lastM[1]
                    THEN <<[id |-> SeparatorMonthPrefix \o NumStr(year) \o <<"-">> \o NumStr(month),
                            type |-> "separator",
                            label |-> monthNames[month + 1] \o <<" ">> \o NumStr(year),
                            kind |-> "month", x |-> 0, y |-> y - layout.ROW_HEIGHT \div 2]>>
                    ELSE <<>>
    IN  yearSep \o monthSep

(* Body of the second forEach: the separators pushed for the post at       *)
(* 0-based index i, given lastYear and lastMonth.                          *)
EmitSeparators(post, i, lastY, lastM, zone) ==
    LET year == getFullYear(post.date, zone)
        month == getMonth(post.date, zone)
        y == RowY(i)
        yearSep == IF i > 0 /\ lastY # None /\ year # lastY[1]
                   THEN <<[id |-> SeparatorYearPrefix \o NumStr(year),
                           type |-> "separator", label |-> NumStr(year),
                           kind |-> "year", x |-> 0, y |-> y - layout.ROW_HEIGHT \div 2]>>
                   ELSE <<>>
        monthSep == IF i > 0 /\ lastM # None /\ month # lastM[1] /\ lastY = Some(year)
                    THEN <<[id |-> SeparatorMonthPrefix \o NumStr(year) \o <<"-">> \o NumStr(month),
                            type |-> "separator",
                            label |-> monthNames[month + 1] \o <<" ">> \o NumStr(year),
                            kind |-> "month", x |-> 0, y |-> y - layout.ROW_HEIGHT \div 2]>>
                    ELSE <<>>
    IN  yearSep \o monthSep

(* Fault of the scan: it does not stop at the first hit, the last one wins *)
FirstOnOrBefore_Last(pub, now, zone) ==
    LET hits == {k \in 1..Len(pub) : DayTime(LocalDate(pub[k].date, zone)) <= DayTime(now)}
    IN  IF hits = {} THEN None
        ELSE Some((CHOOSE k \in hits : \A j \in hits : j <= k) - 1)

(* The for loop of the today marker: the first index whose post is dated   *)
(* on or before today, if any.                                             *)
FirstOnOrBefore(pub, now, zone) ==
    LET hits == {k \in 1..Len(pub) : DayTime(LocalDate(pub[k].date, zone)) <= DayTime(now)}
    IN  IF hits = {} THEN None
        ELSE Some((CHOOSE k \in hits : \A j \in hits : k <= j) - 1)

(* Fault of the today rule: a clock that is not after the newest post     *)
(* puts the marker below the last row instead of at the top                *)
TodayY_BelowWhenNotAfter(pub, now, zone) ==
    IF Len(pub) > 0
    THEN IF DayTime(now) > DayTime(LocalDate(pub[1].date, zone))
         THEN LET found == FirstOnOrBefore(pub, now, zone)
              IN  IF found = None THEN None ELSE Some(RowY(found[1]))
         ELSE Some(RowY(Len(pub)))
    ELSE Some(RowY(Len(pub)))

(* todayY, an optional number; now is the local calendar day of new Date() *)
TodayY(pub, now, zone) ==
    IF Len(pub) > 0
    THEN IF DayTime(now) > DayTime(LocalDate(pub[1].date, zone))
         THEN LET found == FirstOnOrBefore(pub, now, zone)
              IN  IF found = None THEN None ELSE Some(RowY(found[1]))
         ELSE Some(layout.PADDING_TOP)
    ELSE Some(layout.PADDING_TOP)

(* Fault of the marker: pushed whenever a position was computed, without   *)
(* the test todayY > 0                                                     *)
EmitToday_NoThreshold(pub, now, zone) ==
    LET todayY == TodayY(pub, now, zone)
    IN  IF todayY # None
        THEN <<[id |-> TodayMarkerId, type |-> "today", date |-> IsoDay(now, zone),
                x |-> 0, y |-> todayY[1]]>>
        ELSE <<>>

(* Fault of the marker: the threshold is a number of pixels instead of 0 *)
EmitToday_PixelThreshold(pub, now, zone) ==
    LET todayY == TodayY(pub, now, zone)
    IN  IF todayY # None /\ todayY[1] > 10
        THEN <<[id |-> TodayMarkerId, type |-> "today", date |-> IsoDay(now, zone),
                x |-> 0, y |-> todayY[1]]>>
        ELSE <<>>

EmitToday(pub, now, zone) ==
    LET todayY == TodayY(pub, now, zone)
    IN  IF todayY # None /\ todayY[1] > 0
        THEN <<[id |-> TodayMarkerId, type |-> "today", date |-> IsoDay(now, zone),
                x |-> 0, y |-> todayY[1]]>>
        ELSE <<>>

(* The first forEach over publishedPosts, from index i on *)
RECURSIVE EmitAllPosts(_, _, _)
EmitAllPosts(pub, i, brs) ==
    IF i >= Len(pub) THEN [nodes |-> <<>>, edges |-> <<>>]
    ELSE LET here == EmitPost(pub[i + 1], i, brs)
             rest == EmitAllPosts(pub, i + 1, brs)
         IN  [nodes |-> here.nodes \o rest.nodes, edges |-> here.edges \o rest.edges]

(* The second forEach over publishedPosts, from index i on, with the      *)
(* values lastYear and lastMonth hold when iteration i begins.              *)
RECURSIVE EmitAllSeparators(_, _, _, _, _)
EmitAllSeparators(pub, i, lastY, lastM, zone) ==
    IF i >= Len(pub) THEN <<>>
    ELSE EmitSeparators(pub[i + 1], i, lastY, lastM, zone)
         \o EmitAllSeparators(pub, i + 1, Some(getFullYear(pub[i + 1].date, zone)),
                              Some(getMonth(pub[i + 1].date, zone)), zone)

(* mapPostsToGraph as a function of the post list, the clock and the zone *)
MapPostsToGraph(ps, now, zone) ==
    LET pub == FilterDrafts(ps)
        brs == BuildBranches(SortTags(CollectTags(pub, <<>>), <<>>))
        emitted == EmitAllPosts(pub, 0, brs)
    IN  [branches |-> brs,
         nodes |-> emitted.nodes \o EmitAllSeparators(pub, 0, None, None, zone)
                   \o EmitToday(pub, now, zone),
         edges |-> emitted.edges]

----------------------------------------------------------------------------
(* Inputs.  The content of a post (what its file fixes) is drawn from a    *)
(* pool of posts with pairwise distinct slugs; the caller passes them      *)
(* newest first, so the dates of a list are non-increasing.                *)

Str_Apple == <<"A","p","p","l","e">>
Str_mango == <<"m","a","n","g","o">>
Str_mango_b == <<"m","a","n","g","o","-","b">>
Str_zebra == <<"z","e","b","r","a">>
Str_Main == <<"M","a","i","n">>
Str_Empty == <<>>

Content(s, title, summary, tags, draft) ==
    [slug |-> s, title |-> title, summary |-> summary, tags |-> tags, draft |-> draft]

ContentPool ==
    { Content(<<"c">>, "T1", "S1", Some(<<Str_mango_b>>), "false"),
      Content(<<"b","-","c">>, "T2", Undefined, Some(<<Str_mango>>), "false"),
      Content(<<"p">>, "T3", "S3", Some(<<>>), "false"),
      Content(<<"q">>, "T4", "S4", Some(<<Str_zebra>>), Undefined),
      Content(<<"r">>, "T5", "S5", Some(<<Str_Apple, Str_zebra>>), "false"),
      Content(<<"t">>, "T6", "S6", Some(<<Str_Main>>), "false"),
      Content(<<"u">>, "T7", "S7", Some(<<Str_mango>>), "true"),
      Content(<<"e">>, "T8", "S8", Some(<<Str_Empty>>), "false") }

Date(y, m, d) == [year |-> y, month |-> m, day |-> d]

DatePool == { Date(2024, 12, 20), Date(2024, 11, 15), Date(2023, 11, 1) }

(* Local calendar days the clock may show *)
TodayPool == { Date(2024, 11, 15), Date(2024, 12, 1), Date(2025, 6, 30) }

ZonePool == { 0 }

WithDate(c, d) ==
    [slug |-> c.slug, title |-> c.title, summary |-> c.summary, date |-> d,
     tags |-> c.tags, draft |-> c.draft]

PostLists(pool, dates, maxLen) ==
    { ps \in UNION { [1..n -> { WithDate(c, d) : c \in pool, d \in dates }] : n \in 0..maxLen } :
        /\ \A j, k \in 1..Len(ps) : j < k => ps[j].slug # ps[k].slug
        /\ \A j, k \in 1..Len(ps) : j < k => DayTime(ps[j].date) >= DayTime(ps[k].date) }

----------------------------------------------------------------------------
(* The run of one call of mapPostsToGraph *)

InitFrom(lists, zones, layouts) ==
    /\ posts \in lists
    /\ frontmatter = None
    /\ category = None
    /\ valid = None
    /\ rawTag = None
    /\ rawPage = None
    /\ home = None
    /\ tz \in zones
    /\ layout \in layouts
    /\ prev = None
    /\ pc = "start"
    /\ publishedPosts = <<>>
    /\ branches = <<>>
    /\ nodes = <<>>
    /\ edges = <<>>
    /\ today = None

InitWith(pool, dates, zones, layouts, maxLen) ==
    InitFrom(PostLists(pool, dates, maxLen), zones, layouts)

Init == InitWith(ContentPool, DatePool, ZonePool, {LAYOUT_CONSTANTS}, MaxPosts)

(* Fault of the set-up: the tags are collected from posts, drafts         *)
(* included, instead of publishedPosts                                     *)
Start_TagsOfAllPosts ==
    /\ pc = "start"
    /\ publishedPosts' = FilterDrafts(posts)
    /\ branches' = BuildBranches(SortTags(CollectTags(posts, <<>>), <<>>))
    /\ nodes' = <<>>
    /\ edges' = <<>>
    /\ pc' = "commits"
    /\ UNCHANGED <<elsewhere, posts, tz, layout, prev, today>>

(* Fault of the set-up: nodes and edges live outside the function and are *)
(* not emptied when a call begins                                          *)
Start_KeepsNodes ==
    /\ pc = "start"
    /\ publishedPosts' = FilterDrafts(posts)
    /\ branches' = BuildBranches(SortTags(CollectTags(FilterDrafts(posts), <<>>), <<>>))
    /\ UNCHANGED <<nodes, edges>>
    /\ pc' = "commits"
    /\ UNCHANGED <<elsewhere, posts, tz, layout, prev, today>>

(* Lines 155-183: filter the drafts, build the branches *)
Start ==
    /\ pc = "start"
    /\ publishedPosts' = FilterDrafts(posts)
    /\ branches' = BuildBranches(SortTags(CollectTags(FilterDrafts(posts), <<>>), <<>>))
    /\ nodes' = <<>>
    /\ edges' = <<>>
    /\ pc' = "commits"
    /\ UNCHANGED <<elsewhere, posts, tz, layout, prev, today>>

(* Lines 185-243: the first forEach, commits, merges and connectors *)
CommitPass ==
    /\ pc = "commits"
    /\ LET out == EmitAllPosts(publishedPosts, 0, branches)
       IN  /\ nodes' = nodes \o out.nodes
           /\ edges' = edges \o out.edges
    /\ pc' = "separators"
    /\ UNCHANGED <<elsewhere, posts, tz, layout, prev, publishedPosts, branches, today>>

(* Lines 245-300: the second forEach, month and year separators *)
SeparatorPass ==
    /\ pc = "separators"
    /\ nodes' = nodes \o EmitAllSeparators(publishedPosts, 0, None, None, tz)
    /\ pc' = "today"
    /\ UNCHANGED <<elsewhere, posts, tz, layout, prev, publishedPosts, branches, edges, today>>

(* Fault of the last step: the marker is put in front of the other nodes *)
TodayStep_MarkerFirst ==
    /\ pc = "today"
    /\ \E now \in TodayPool :
         /\ today' = Some(now)
         /\ nodes' = EmitToday(publishedPosts, now, tz) \o nodes
    /\ pc' = "done"
    /\ UNCHANGED <<elsewhere, posts, tz, layout, prev, publishedPosts, branches, edges>>

(* Lines 302-348: read the clock, place the today marker, return *)
TodayStep ==
    /\ pc = "today"
    /\ \E now \in TodayPool :
         /\ today' = Some(now)
         /\ nodes' = nodes \o EmitToday(publishedPosts, now, tz)
    /\ pc' = "done"
    /\ UNCHANGED <<elsewhere, posts, tz, layout, prev, publishedPosts, branches, edges>>

Next ==
    \/ Start
    \/ CommitPass
    \/ SeparatorPass
    \/ TodayStep

Spec == Init /\ [][Next]_vars

(* The GraphModel returned once the call has finished *)
Returned == pc = "done"
Result == [branches |-> branches, nodes |-> nodes, edges |-> edges]

----------------------------------------------------------------------------
(* GitGraph (components/Footer): what the component derives from the model *)
(* graphData that mapPostsToGraph returned                                 *)

(* graphData.nodes[graphData.nodes.length - 1].y || 0, or 0 without nodes *)
lastNodeY(graphData) ==
    IF Len(graphData.nodes) > 0 THEN graphData.nodes[Len(graphData.nodes)].y ELSE 0

(* The Map branchRanges: 'main' is set first, then every commit off main   *)
(* widens the range of its branch.                                         *)
branchRanges(graphData) ==
    LET offMain == { k \in 1..Len(graphData.nodes) :
                       /\ graphData.nodes[k].type = "commit"
                       /\ graphData.nodes[k].branch # MainStr }
        ys(id) == { graphData.nodes[k].y : k \in { j \in offMain : graphData.nodes[j].branch = id } }
    IN  [id \in {MainStr} \cup { graphData.nodes[k].branch : k \in offMain } |->
            IF id = MainStr
            THEN [minY |-> layout.PADDING_TOP,
                  maxY |-> lastNodeY(graphData) + layout.PADDING_BOTTOM]
            ELSE [minY |-> CHOOSE y \in ys(id) : \A z \in ys(id) : y <= z,
                  maxY |-> CHOOSE y \in ys(id) : \A z \in ys(id) : z <= y]]

(* Fault of the height: taken from the last node, as the main rail is *)
height_FromLastNode(graphData) == lastNodeY(graphData) + layout.PADDING_BOTTOM

(* The height of the SVG *)
height(graphData) ==
    Len(graphData.nodes) * layout.ROW_HEIGHT + layout.PADDING_TOP + layout.PADDING_BOTTOM

----------------------------------------------------------------------------
(* Further runs of the same call, with other environments *)

(* Four posts of the pool: one without tags, two tagged, one draft *)
SmallPool == { c \in ContentPool : c.slug \in { <<"p">>, <<"q">>, <<"r">>, <<"u">> } }

(* Dates at the start of a month and of a year, next to the dates above *)
BoundaryDatePool ==
    DatePool \cup { Date(2024, 2, 1), Date(2024, 1, 1) }

(* Zones west of, at and east of UTC *)
AllZones == { -1, 0, 1 }

(* The call in a browser of any zone *)
SpecDates ==
    InitWith(SmallPool, BoundaryDatePool, AllZones, {LAYOUT_CONSTANTS}, MaxPosts)
    /\ [][Next]_vars

(* The caller keeps the model it was given and calls again with the same   *)
(* posts (a re-render of GitGraph).                                        *)
Reinvoke ==
    /\ pc = "done"
    /\ prev = None
    /\ prev' = Some([result |-> Result, today |-> today[1], layout |-> layout])
    /\ pc' = "start"
    /\ UNCHANGED <<elsewhere, posts, tz, layout, publishedPosts, branches, nodes, edges, today>>

NextTwice ==
    \/ Next
    \/ Reinvoke

SpecTwice ==
    InitWith(SmallPool, DatePool, ZonePool, {LAYOUT_CONSTANTS}, MaxPosts)
    /\ [][NextTwice]_vars

(* Other choices of the layout: no top padding, all zero, and other sizes. *)
(* The row heights are even, so that ROW_HEIGHT / 2 is a whole number.     *)
LayoutPool ==
    { LAYOUT_CONSTANTS,
      [LAYOUT_CONSTANTS EXCEPT !.PADDING_TOP = 0],
      [ROW_HEIGHT |-> 0, PADDING_TOP |-> 0, PADDING_BOTTOM |-> 0, MAIN_X |-> 0,
       BRANCH_SPACING |-> 0, LABEL_WIDTH |-> 0],
      [ROW_HEIGHT |-> 96, PADDING_TOP |-> 8, PADDING_BOTTOM |-> 0, MAIN_X |-> 300,
       BRANCH_SPACING |-> 40, LABEL_WIDTH |-> 20] }

(* The program is built again with another choice of LAYOUT_CONSTANTS and  *)
(* called with the same posts; the model of the first build is kept.       *)
Relayout ==
    /\ pc = "done"
    /\ prev = None
    /\ prev' = Some([result |-> Result, today |-> today[1], layout |-> layout])
    /\ layout' \in LayoutPool
    /\ pc' = "start"
    /\ UNCHANGED <<elsewhere, posts, tz, publishedPosts, branches, nodes, edges, today>>

NextLayout ==
    \/ Next
    \/ Relayout

SpecLayout ==
    InitWith(SmallPool, DatePool, ZonePool, {LAYOUT_CONSTANTS}, MaxPosts)
    /\ [][NextLayout]_vars

(* A caller that does not keep the promise of the newest post first *)
AnyOrderLists(pool, dates, maxLen) ==
    { ps \in UNION { [1..n -> { WithDate(c, d) : c \in pool, d \in dates }] : n \in 0..maxLen } :
        \A j, k \in 1..Len(ps) : j < k => ps[j].slug # ps[k].slug }

SpecAnyOrder ==
    InitFrom(AnyOrderLists(SmallPool, DatePool, MaxPosts), AllZones, {LAYOUT_CONSTANTS})
    /\ [][Next]_vars

(* Two tags that differ only in letter case *)
Str_apple == <<"a","p","p","l","e">>

CasePool ==
    { c \in ContentPool : c.slug \in { <<"p">>, <<"r">> } }
    \cup { Content(<<"a">>, "T10", "S10", Some(<<Str_apple>>), "false") }

SpecCase ==
    InitWith(CasePool, DatePool, ZonePool, {LAYOUT_CONSTANTS}, MaxPosts) /\ [][Next]_vars

(* More tag branches than the palette has colours.  One post per tag, all  *)
(* of the same day; the lists are the runs of consecutive posts of a fixed *)
(* sequence whose tags are not in alphabetical order.                      *)
MaxPalettePosts == 10

PaletteLetters == <<"g","c","k","a","j","e","b","l","d","i","f","h">>

PalettePost(k) ==
    WithDate(Content(<<"s", PaletteLetters[k]>>, "T9", "S9",
                     Some(<< <<"t", PaletteLetters[k]>> >>), "false"),
             Date(2023, 11, 1))

PaletteLists ==
    { [k \in 1..n |-> PalettePost(a + k - 1)] :
        <<a, n>> \in { w \in (1..Len(PaletteLetters)) \X (0..MaxPalettePosts) :
                         w[1] + w[2] - 1 <= Len(PaletteLetters) } }

SpecPalette ==
    InitFrom(PaletteLists, ZonePool, {LAYOUT_CONSTANTS}) /\ [][Next]_vars

----------------------------------------------------------------------------
(* lib/categories and the category validator script *)

Str_technology == <<"t","e","c","h","n","o","l","o","g","y">>
Str_fitness == <<"f","i","t","n","e","s","s">>
Str_life == <<"l","i","f","e">>
Str_others == <<"o","t","h","e","r","s">>
Str_learning == <<"l","e","a","r","n","i","n","g">>
Str_Technology == <<"T","e","c","h","n","o","l","o","g","y">>
Str_LIFE == <<"L","I","F","E">>

ALLOWED_CATEGORIES == <<Str_technology, Str_fitness, Str_life, Str_others>>

(* Array.prototype.includes *)
Includes(arr, v) == \E k \in 1..Len(arr) : arr[k] = v

(* Fault of the lookup: the tag is compared as written *)
getPostCategory_CaseSensitive(tags) ==
    IF tags = None \/ Len(tags[1]) = 0 THEN Str_others
    ELSE IF Len(tags[1]) > 1 THEN Str_others
    ELSE LET tag == tags[1][1]
         IN  IF Includes(ALLOWED_CATEGORIES, tag) THEN tag ELSE Str_others

(* getPostCategory(tags); tags is absent (undefined) or a list of strings *)
getPostCategory(tags) ==
    IF tags = None \/ Len(tags[1]) = 0 THEN Str_others
    ELSE IF Len(tags[1]) > 1 THEN Str_others
    ELSE LET tag == ToLowerCase(tags[1][1])
         IN  IF Includes(ALLOWED_CATEGORIES, tag) THEN tag ELSE Str_others

(* The validator script keeps its own copy of the list *)
ValidatorAllowedCategories == <<Str_technology, Str_fitness, Str_life, Str_others>>

(* Fault of the validator: the tag is lower-cased before it is looked up *)
validateFile_CaseInsensitive(fm) ==
    IF fm = None THEN [valid |-> FALSE, error |-> "No frontmatter found"]
    ELSE IF fm[1].tags = None THEN [valid |-> FALSE, error |-> "Missing 'tags' in frontmatter"]
    ELSE IF Len(fm[1].tags[1]) = 0 THEN [valid |-> FALSE, error |-> "'tags' array is empty"]
    ELSE IF Len(fm[1].tags[1]) > 1
         THEN [valid |-> FALSE, error |-> "'tags' must contain exactly one value"]
    ELSE LET tag == fm[1].tags[1][1]
         IN  IF tag = Str_learning
             THEN [valid |-> FALSE, error |-> "'learning' tag is no longer allowed"]
             ELSE IF ~Includes(ValidatorAllowedCategories, ToLowerCase(tag))
             THEN [valid |-> FALSE, error |-> "Invalid tag"]
             ELSE [valid |-> TRUE, error |-> Undefined]

(* validateFile, from the frontmatter extractFrontmatter returned: absent, *)
(* or a record whose tags are absent (null) or a list of strings           *)
validateFile(fm) ==
    IF fm = None THEN [valid |-> FALSE, error |-> "No frontmatter found"]
    ELSE IF fm[1].tags = None THEN [valid |-> FALSE, error |-> "Missing 'tags' in frontmatter"]
    ELSE IF Len(fm[1].tags[1]) = 0 THEN [valid |-> FALSE, error |-> "'tags' array is empty"]
    ELSE IF Len(fm[1].tags[1]) > 1
         THEN [valid |-> FALSE, error |-> "'tags' must contain exactly one value"]
    ELSE LET tag == fm[1].tags[1][1]
         IN  IF tag = Str_learning
             THEN [valid |-> FALSE, error |-> "'learning' tag is no longer allowed"]
             ELSE IF ~Includes(ValidatorAllowedCategories, tag)
             THEN [valid |-> FALSE, error |-> "Invalid tag"]
             ELSE [valid |-> TRUE, error |-> Undefined]

(* The tags of a post file, as the site reads them from its frontmatter *)
TagsOf(fm) == IF fm = None THEN None ELSE fm[1].tags

MaxTags == 2

TagPool ==
    { Str_technology, Str_Technology, Str_fitness, Str_life, Str_LIFE, Str_others,
      Str_learning, Str_zebra, Str_Empty }

TagLists(maxLen) == UNION { [1..n -> TagPool] : n \in 0..maxLen }

FrontmatterPool ==
    { None, Some([tags |-> None]) } \cup { Some([tags |-> Some(t)]) : t \in TagLists(MaxTags) }

(* The other components are idle while the category functions run *)
GraphIdle ==
    /\ tz = 0
    /\ layout = LAYOUT_CONSTANTS
    /\ pc = "idle"
    /\ publishedPosts = <<>>
    /\ branches = <<>>
    /\ nodes = <<>>
    /\ edges = <<>>
    /\ today = None
    /\ prev = None

InitCategories ==
    /\ frontmatter \in FrontmatterPool
    /\ category = None
    /\ valid = None
    /\ posts = <<>>
    /\ rawTag = None
    /\ rawPage = None
    /\ home = None
    /\ GraphIdle

(* The site computes the category of the post *)
GetPostCategory ==
    /\ category = None
    /\ category' = Some(getPostCategory(TagsOf(frontmatter)))
    /\ UNCHANGED <<frontmatter, valid, rawTag, rawPage, home, posts, tz, layout, pc,
                   publishedPosts, branches, nodes, edges, today, prev>>

(* The validator script checks the post file *)
ValidateFile ==
    /\ valid = None
    /\ valid' = Some(validateFile(frontmatter))
    /\ UNCHANGED <<frontmatter, category, rawTag, rawPage, home, posts, tz, layout, pc,
                   publishedPosts, branches, nodes, edges, today, prev>>

NextCategories ==
    \/ GetPostCategory
    \/ ValidateFile

SpecCategories == InitCategories /\ [][NextCategories]_vars

----------------------------------------------------------------------------
(* The home page (app/Main, HomeContent) *)

POSTS_PER_PAGE == 5

ALL_CATEGORIES == ALLOWED_CATEGORIES

(* The number NaN; any other number n is Some(n) *)
NaN == None

RECURSIVE TrimStart(_)
TrimStart(s) == IF s # <<>> /\ Head(s) = " " THEN TrimStart(Tail(s)) ELSE s

RECURSIVE LeadingDigits(_)
LeadingDigits(s) ==
    IF s # <<>> /\ Head(s) \in CharSet(DigitChars)
    THEN <<Head(s)>> \o LeadingDigits(Tail(s))
    ELSE <<>>

RECURSIVE DigitsValue(_, _)
DigitsValue(ds, acc) ==
    IF ds = <<>> THEN acc
    ELSE DigitsValue(Tail(ds), acc * 10 + (IndexOf(DigitChars, Head(ds)) - 1))

(* Number.parseInt(s, 10): leading blanks are skipped, a sign is read, the *)
(* digits that follow are the value, whatever comes after them is ignored; *)
(* without a digit the result is NaN.                                      *)
parseInt(s) ==
    LET t == TrimStart(s)
        signed == t # <<>> /\ Head(t) \in {"+", "-"}
        digits == LeadingDigits(IF signed THEN Tail(t) ELSE t)
    IN  IF digits = <<>> THEN NaN
        ELSE IF signed /\ Head(t) = "-" THEN Some(0 - DigitsValue(digits, 0))
        ELSE Some(DigitsValue(digits, 0))

Max(a, b) == IF a >= b THEN a ELSE b
Min(a, b) == IF a <= b THEN a ELSE b

(* Math.ceil(a / b) for a >= 0 and b > 0 *)
CeilDiv(a, b) == (a + b - 1) \div b

(* Array.prototype.slice(start, end) for 0 <= start <= end *)
Slice(arr, start, end) == SubSeq(arr, start + 1, Min(end, Len(arr)))

(* Fault of the page: the page number is taken for the index of the page *)
DisplayPosts_FromPageNumber(filteredPosts, currentPage, postsPerPage) ==
    LET startIndex == currentPage * postsPerPage
    IN  Slice(filteredPosts, startIndex, startIndex + postsPerPage)

DisplayPosts(filteredPosts, currentPage, postsPerPage) ==
    LET startIndex == (currentPage - 1) * postsPerPage
    IN  Slice(filteredPosts, startIndex, startIndex + postsPerPage)

(* What one render of HomeContent computes from the posts and the query    *)
(* (tagQuery and pageQuery are searchParams.get('tag') and ('page'), absent *)
(* when null)                                                              *)
HomeContent(ps, tagQuery, pageQuery) ==
    LET postsPerPage == POSTS_PER_PAGE
        activeTag == IF tagQuery # None /\ tagQuery[1] # <<>>
                        /\ Includes(ALL_CATEGORIES, tagQuery[1])
                     THEN Some(tagQuery[1]) ELSE None
        parsedPage == IF pageQuery # None /\ pageQuery[1] # <<>>
                      THEN parseInt(pageQuery[1]) ELSE Some(1)
        filteredPosts == IF activeTag = None THEN ps
                         ELSE SelectSeq(ps, LAMBDA post :
                                  getPostCategory(post.tags) = activeTag[1])
        totalPages == Max(1, CeilDiv(Len(filteredPosts), postsPerPage))
        currentPage == IF parsedPage # NaN /\ parsedPage[1] > 0
                       THEN Min(parsedPage[1], totalPages) ELSE 1
    IN  [activeTag |-> activeTag,
         parsedPage |-> parsedPage,
         filteredPosts |-> filteredPosts,
         totalPages |-> totalPages,
         currentPage |-> currentPage,
         prevPage |-> currentPage - 1 > 0,
         nextPage |-> currentPage + 1 <= totalPages,
         displayPosts |-> DisplayPosts(filteredPosts, currentPage, postsPerPage)]

(* The posts of the home page: the first posts of a fixed list of twelve,  *)
(* six of them in the category technology                                  *)
MaxHomePosts == 11

HomeTags ==
    << Some(<<Str_technology>>), Some(<<Str_Technology>>), Some(<<Str_life>>),
       Some(<<Str_technology>>), Some(<<>>), Some(<<Str_technology>>),
       Some(<<Str_zebra>>), Some(<<Str_technology>>), Some(<<Str_life, Str_fitness>>),
       Some(<<Str_Technology>>), Some(<<Str_others>>), None >>

HomePost(k) ==
    WithDate(Content(<<"h", LowerChars[k]>>, "T11", "S11", HomeTags[k], "false"),
             Date(2023, 11, 1))

HomeLists == { [k \in 1..n |-> HomePost(k)] : n \in 0..Min(MaxHomePosts, Len(HomeTags)) }

RawTagPool ==
    { None, Some(Str_Empty), Some(Str_technology), Some(Str_life), Some(Str_others),
      Some(Str_Technology), Some(Str_zebra) }

RawPagePool ==
    { None, Some(<<>>), Some(<<"a","b","c">>), Some(<<"0">>), Some(<<"-","1">>),
      Some(<<"1">>), Some(<<"2">>), Some(<<"3">>), Some(<<"9","9">>),
      Some(<<"2","a","b","c">>), Some(<<" ","2">>) }

InitHome ==
    /\ posts \in HomeLists
    /\ rawTag \in RawTagPool
    /\ rawPage \in RawPagePool
    /\ home = None
    /\ frontmatter = None
    /\ category = None
    /\ valid = None
    /\ GraphIdle

(* Lines 20-45: one render of HomeContent *)
RenderHome ==
    /\ home = None
    /\ home' = Some(HomeContent(posts, rawTag, rawPage))
    /\ UNCHANGED <<frontmatter, category, valid, rawTag, rawPage, posts, tz, layout, pc,
                   publishedPosts, branches, nodes, edges, today, prev>>

NextHome == RenderHome

SpecHome == InitHome /\ [][NextHome]_vars

----------------------------------------------------------------------------
(* Vocabulary of the properties *)

NodeIdx(type) == { k \in 1..Len(nodes) : nodes[k].type = type }

(* The records whose draft flag is not true, in input order *)
NonDraft(ps) == SelectSeq(ps, LAMBDA r : ~(r.draft = "true"))

(* tags[0] of a record that has one *)
HasPrimaryTag(r) == r.tags # None /\ r.tags[1] # <<>>
PrimaryTag(r) == r.tags[1][1]

(* C1: once the call has returned, the number of commit nodes is the       *)
(* number of input records whose draft flag is not true.                   *)
C1_OneCommitPerNonDraft ==
    Returned =>
        Cardinality(NodeIdx("commit"))
            = Cardinality({ k \in 1..Len(posts) : posts[k].draft # "true" })

C1_Witness ==
    /\ Returned
    /\ Len(posts) = 3
    /\ \E j, k, l \in 1..Len(posts) :
         /\ posts[j].draft = "true"
         /\ posts[k].draft = Undefined /\ HasPrimaryTag(posts[k])
         /\ posts[l].draft = "false" /\ ~HasPrimaryTag(posts[l])
    /\ Cardinality(NodeIdx("commit")) = 2

(* C2: once the call has returned, no two positions of nodes hold the same *)
(* id (the input is newest first and its slugs are pairwise distinct).     *)
C2_NodeIdsUnique ==
    Returned =>
        \A j, k \in 1..Len(nodes) : j # k => nodes[j].id # nodes[k].id

(* C3: once the call has returned, a merge node with a given slug exists   *)
(* exactly when the commit of that slug is on a branch other than main;    *)
(* there are as many merges as commits off main; every merge shares its y  *)
(* with exactly one commit.                                                *)
C3_MergeIffOffMain ==
    Returned =>
        /\ \A c \in NodeIdx("commit") :
             (nodes[c].branch # MainStr)
                <=> (\E m \in NodeIdx("merge") : nodes[m].slug = nodes[c].slug)
        /\ Cardinality(NodeIdx("merge"))
             = Cardinality({ c \in NodeIdx("commit") : nodes[c].branch # MainStr })
        /\ \A m \in NodeIdx("merge") :
             Cardinality({ c \in NodeIdx("commit") : nodes[c].y = nodes[m].y }) = 1

(* C4: once the call has returned, exactly one branch has the id "main". *)
C4_OneMainBranch ==
    Returned =>
        Cardinality({ k \in 1..Len(branches) : branches[k].id = MainStr }) = 1

(* C5: once the call has returned, the from and the to of every edge are   *)
(* ids of nodes of the nodes list.                                         *)
C5_EdgeEndsExist ==
    Returned =>
        \A e \in 1..Len(edges) :
            /\ \E k \in 1..Len(nodes) : nodes[k].id = edges[e].from
            /\ \E k \in 1..Len(nodes) : nodes[k].id = edges[e].to

C5_Witness ==
    /\ Returned
    /\ Len(edges) >= 2
    /\ \E e \in 1..Len(edges) : \E k \in NodeIdx("merge") : nodes[k].id = edges[e].to

(* C6: the model returned for a list is the model of the same list with    *)
(* every record whose draft flag is true removed.                          *)
C6_DraftsContributeNothing ==
    Returned => Result = MapPostsToGraph(NonDraft(posts), today[1], tz)

C6_Witness ==
    /\ Returned
    /\ Len(posts) = 3
    /\ posts[1].draft = "true"
    /\ posts[2].draft # "true"
    /\ HasPrimaryTag(posts[1]) /\ HasPrimaryTag(posts[3])
    /\ getMonth(posts[1].date, tz) # getMonth(posts[2].date, tz)
    /\ Cardinality(NodeIdx("separator")) = 1

(* C7: the commit of the non-draft record at 0-based index i (among the    *)
(* non-draft records, in input order) has y = PADDING_TOP + i * ROW_HEIGHT,*)
(* and y increases strictly along the commits.                             *)
C7_CommitRows ==
    Returned =>
        LET nd == NonDraft(posts)
            commits == SelectSeq(nodes, LAMBDA n : n.type = "commit")
        IN  /\ Len(commits) = Len(nd)
            /\ \A i \in 0..(Len(nd) - 1) :
                 /\ commits[i + 1].slug = nd[i + 1].slug
                 /\ commits[i + 1].y = PADDING_TOP + i * ROW_HEIGHT
            /\ \A j, k \in 1..Len(commits) : j < k => commits[j].y < commits[k].y

C7_Witness ==
    /\ Returned
    /\ Len(posts) = 3
    /\ posts[2].draft = "true"
    /\ \E k \in NodeIdx("commit") :
         nodes[k].slug = posts[3].slug /\ nodes[k].y = PADDING_TOP + ROW_HEIGHT

(* C8: the branches are main first, then exactly one branch per distinct   *)
(* primary tag of the non-draft records, named by the tag text, in         *)
(* ascending case-insensitive order of the names.                          *)
C8_BranchOrder ==
    Returned =>
        LET nd == NonDraft(posts)
            primary == { PrimaryTag(nd[k]) : k \in { j \in 1..Len(nd) : HasPrimaryTag(nd[j]) } }
        IN  /\ Len(branches) = 1 + Cardinality(primary)
            /\ branches[1].id = MainStr /\ branches[1].name = MainStr
            /\ { branches[k].name : k \in 2..Len(branches) } = primary
            /\ \A j, k \in 2..Len(branches) :
                 j < k => localeCompare(ToLowerCase(branches[j].name),
                                        ToLowerCase(branches[k].name)) <= 0

C8_Witness ==
    /\ Returned
    /\ Len(posts) = 3
    /\ \A k \in 1..3 : posts[k].draft # "true" /\ HasPrimaryTag(posts[k])
    /\ <<PrimaryTag(posts[1]), PrimaryTag(posts[2]), PrimaryTag(posts[3])>>
         = <<Str_zebra, Str_Apple, Str_mango>>
    /\ [k \in 1..Len(branches) |-> branches[k].name]
         = <<MainStr, Str_Apple, Str_mango, Str_zebra>>

(* C9: for every commit made for a record that has a primary tag there is  *)
(* exactly one merge node at x = MAIN_X and the commit's y, it carries the *)
(* commit's slug and date, and exactly one merge-connector edge goes from  *)
(* the commit's id to that merge's id.                                     *)
PairedWithMerge(c) ==
    LET ms == { m \in NodeIdx("merge") :
                  nodes[m].x = MAIN_X /\ nodes[m].y = nodes[c].y }
    IN  /\ Cardinality(ms) = 1
        /\ \A m \in ms :
             /\ nodes[m].slug = nodes[c].slug
             /\ nodes[m].date = nodes[c].date
             /\ Cardinality({ e \in 1..Len(edges) :
                                /\ edges[e].type = "merge-connector"
                                /\ edges[e].from = nodes[c].id
                                /\ edges[e].to = nodes[m].id }) = 1

C10_NoMainEdges ==
    Returned =>
        /\ \A e \in 1..Len(edges) :
             ~(\E c \in NodeIdx("commit") :
                   nodes[c].id = edges[e].from /\ nodes[c].branch = MainStr)
        /\ \A k \in 1..Len(nodes) :
             Cardinality({ e \in 1..Len(edges) :
                             edges[e].type = "merge-connector"
                             /\ edges[e].to = nodes[k].id }) <= 1

----------------------------------------------------------------------------
(* Separators *)

(* The (kind, label) pairs of the separators drawn at height y *)
SeparatorsAt(y) ==
    { <<nodes[k].kind, nodes[k].label>> : k \in { j \in NodeIdx("separator") : nodes[j].y = y } }

(* The dates of the records, as written in them *)
DatesOf(ps) == [k \in 1..Len(ps) |-> ps[k].date]

(* C11: once the call has returned, for every non-draft record at 0-based  *)
(* index i > 0, compared with the record before it: when the years of the  *)
(* two records' dates differ, the separators at y = PADDING_TOP +          *)
(* i * ROW_HEIGHT - ROW_HEIGHT / 2 are exactly one year separator labelled *)
(* with record i's year; otherwise, when the months differ, they are       *)
(* exactly one month separator labelled "{Mon} {year}" of record i; that y *)
(* lies strictly between the rows of the two records; and the dates        *)
(* 2024-12-20, 2024-11-15, 2023-11-01 give exactly the month separator     *)
(* "Nov 2024" and the year separator "2023".                               *)
C11_SeparatorPerBoundary ==
    Returned =>
        LET nd == NonDraft(posts)
        IN  /\ \A i \in 1..(Len(nd) - 1) :
                 LET a == nd[i].date
                     b == nd[i + 1].date
                     y == PADDING_TOP + i * ROW_HEIGHT - ROW_HEIGHT \div 2
                 IN  /\ PADDING_TOP + (i - 1) * ROW_HEIGHT < y
                     /\ y < PADDING_TOP + i * ROW_HEIGHT
                     /\ a.year # b.year
                          => SeparatorsAt(y) = { <<"year", NumStr(b.year)>> }
                     /\ (a.year = b.year /\ a.month # b.month)
                          => SeparatorsAt(y) =
                               { <<"month", monthNames[b.month] \o <<" ">> \o NumStr(b.year)>> }
            /\ DatesOf(nd) = <<Date(2024, 12, 20), Date(2024, 11, 15), Date(2023, 11, 1)>>
                 => /\ Cardinality(NodeIdx("separator")) = 2
                    /\ SeparatorsAt(PADDING_TOP + ROW_HEIGHT - ROW_HEIGHT \div 2)
                         = { <<"month", <<"N","o","v"," ","2","0","2","4">> >> }
                    /\ SeparatorsAt(PADDING_TOP + 2 * ROW_HEIGHT - ROW_HEIGHT \div 2)
                         = { <<"year", <<"2","0","2","3">> >> }

(* The height of the boundary above the row of 0-based index i *)
BoundaryY(i) == PADDING_TOP + i * ROW_HEIGHT - ROW_HEIGHT \div 2

(* C12: once the call has returned, every separator lies at the boundary   *)
(* of an adjacent pair of non-draft records, no boundary holds more than   *)
(* one separator, the number of separators is at most the number of        *)
(* non-draft records minus one, and with zero or one non-draft record      *)
(* there is no separator.                                                  *)
C12_AtMostOneSeparatorPerPair ==
    Returned =>
        LET n == Len(NonDraft(posts))
            seps == NodeIdx("separator")
        IN  /\ \A k \in seps : \E i \in 1..(n - 1) : nodes[k].y = BoundaryY(i)
            /\ \A i \in 1..(n - 1) :
                 Cardinality({ k \in seps : nodes[k].y = BoundaryY(i) }) <= 1
            /\ n >= 1 => Cardinality(seps) <= n - 1
            /\ n <= 1 => seps = {}

C12_Witness ==
    /\ Returned
    /\ Len(NonDraft(posts)) = 3
    /\ Cardinality(NodeIdx("separator")) = 2
    /\ \E k \in NodeIdx("separator") : nodes[k].kind = "year"
    /\ \E k \in NodeIdx("separator") : nodes[k].kind = "month"

----------------------------------------------------------------------------
(* The today marker *)

(* The day of a record, normalised as the code does it: the local calendar *)
(* day of the instant its date denotes                                     *)
DayOf(r) == DayTime(LocalDate(r.date, tz))

(* The clock's day, known once the call has returned *)
TodayDay == DayTime(today[1])

(* C13: once the call has returned, when today is strictly after the day   *)
(* of the newest non-draft record, there is exactly one today node and its *)
(* y is PADDING_TOP + i * ROW_HEIGHT, where i is the smallest 0-based      *)
(* index (newest first) of a non-draft record whose day is on or before    *)
(* today.                                                                  *)
C13_TodayAfterNewest ==
    Returned =>
        LET nd == NonDraft(posts)
        IN  (nd # <<>> /\ TodayDay > DayOf(nd[1])) =>
                LET hits == { k \in 1..Len(nd) : DayOf(nd[k]) <= TodayDay }
                    i == (CHOOSE k \in hits : \A j \in hits : k <= j) - 1
                IN  /\ Cardinality(NodeIdx("today")) = 1
                    /\ \A k \in NodeIdx("today") :
                         nodes[k].y = PADDING_TOP + i * ROW_HEIGHT

(* West of UTC a record written for today's day is already yesterday's *)
C13_Witness ==
    /\ Returned
    /\ tz = -1
    /\ Len(NonDraft(posts)) >= 2
    /\ NonDraft(posts)[1].date = today[1]
    /\ TodayDay > DayOf(NonDraft(posts)[1])
    /\ \E k \in NodeIdx("today") : nodes[k].y = PADDING_TOP

(* C14: once the call has returned, when there is no non-draft record, or  *)
(* today is on or before the day of the newest non-draft record, the today *)
(* marker is placed at y = PADDING_TOP.                                    *)
C14_TodayAtTop ==
    Returned =>
        LET nd == NonDraft(posts)
        IN  (nd = <<>> \/ TodayDay <= DayOf(nd[1])) =>
                /\ Cardinality(NodeIdx("today")) = 1
                /\ \A k \in NodeIdx("today") : nodes[k].y = PADDING_TOP

C14_Witness ==
    /\ Returned
    /\ Len(NonDraft(posts)) >= 2
    /\ TodayDay < DayOf(NonDraft(posts)[1])
    /\ \E k \in NodeIdx("today") : nodes[k].y = PADDING_TOP

(* C15: once the call has returned, under any layout, there is at most one *)
(* today node; when there is one, a position was computed for it, that     *)
(* position is greater than 0 and is the node's y; in particular no today  *)
(* node lies at y <= 0 when today is earlier than every record's date.     *)
C15_TodayOnlyIfPositive ==
    Returned =>
        /\ Cardinality(NodeIdx("today")) <= 1
        /\ \A k \in NodeIdx("today") :
             LET todayY == TodayY(publishedPosts, today[1], tz)
             IN  /\ todayY # None
                 /\ todayY[1] > 0
                 /\ nodes[k].y = todayY[1]
        /\ (\A j \in 1..Len(posts) : TodayDay < DayTime(posts[j].date))
             => \A k \in NodeIdx("today") : nodes[k].y > 0

(* Without top padding the position computed is 0 and no marker is pushed *)
C15_Witness ==
    /\ Returned
    /\ layout.PADDING_TOP = 0
    /\ NonDraft(posts) # <<>>
    /\ \A j \in 1..Len(posts) : TodayDay < DayTime(posts[j].date)
    /\ TodayY(publishedPosts, today[1], tz) = Some(0)
    /\ NodeIdx("today") = {}

----------------------------------------------------------------------------
(* Repeated calls *)

(* C16: when a second call with the same records has returned and its      *)
(* clock showed the same day as the first call's, the model it returns is  *)
(* identical to the model the first call returned: the first call left     *)
(* nothing behind that the second one picks up.                            *)
C16_SecondCallSameModel ==
    (Returned /\ prev # None /\ prev[1].today = today[1])
        => Result = prev[1].result

C16_Witness ==
    /\ Returned
    /\ prev # None
    /\ prev[1].today = today[1]
    /\ Len(prev[1].result.nodes) >= 5
    /\ Len(prev[1].result.edges) >= 1
    /\ Result = prev[1].result

----------------------------------------------------------------------------
(* Degenerate inputs *)

(* C17: once the call has returned for an empty list or a list of drafts   *)
(* only, the branches are the main branch alone, there is no edge, and the *)
(* nodes are at most one today node, at y = PADDING_TOP.                   *)
C17_NothingPublished ==
    (Returned /\ NonDraft(posts) = <<>>) =>
        /\ Len(branches) = 1
        /\ branches[1].id = MainStr
        /\ edges = <<>>
        /\ Len(nodes) <= 1
        /\ \A k \in 1..Len(nodes) :
             nodes[k].type = "today" /\ nodes[k].y = PADDING_TOP

C17_Witness ==
    /\ Returned
    /\ posts # <<>>
    /\ \A k \in 1..Len(posts) : posts[k].draft = "true" /\ HasPrimaryTag(posts[k])
    /\ Len(branches) = 1
    /\ Len(nodes) = 1 /\ nodes[1].type = "today"

----------------------------------------------------------------------------
(* Layout *)

NodeTypes == { "commit", "merge", "separator", "today" }

(* How many nodes of a type a model has *)
NodesOfType(m, t) == Cardinality({ k \in 1..Len(m.nodes) : m.nodes[k].type = t })

(* A second build has returned for the records and the day of the first *)
SecondBuildReturned == Returned /\ prev # None /\ prev[1].today = today[1]

(* C18, as stated: for the same records and the same today, the models of  *)
(* two builds with any two layouts of non-negative integers have the same  *)
(* number of nodes of each type and the same number of edges.              *)
C18_CountsSameUnderAnyLayout ==
    SecondBuildReturned =>
        /\ \A t \in NodeTypes : NodesOfType(Result, t) = NodesOfType(prev[1].result, t)
        /\ Len(edges) = Len(prev[1].result.edges)

(* C18, amended: for the same records and the same today, the models of    *)
(* two builds with any two layouts have the same number of commit, merge   *)
(* and separator nodes and of edges; they have the same number of today    *)
(* nodes when PADDING_TOP is positive in both, and a build with            *)
(* PADDING_TOP = 0 has no today node.                                      *)
C18_CountsSameWithTopPadding ==
    SecondBuildReturned =>
        /\ \A t \in NodeTypes \ { "today" } :
             NodesOfType(Result, t) = NodesOfType(prev[1].result, t)
        /\ Len(edges) = Len(prev[1].result.edges)
        /\ (layout.PADDING_TOP > 0 /\ prev[1].layout.PADDING_TOP > 0)
             => NodesOfType(Result, "today") = NodesOfType(prev[1].result, "today")
        /\ layout.PADDING_TOP = 0 => NodesOfType(Result, "today") = 0

C18_Witness ==
    /\ SecondBuildReturned
    /\ layout.PADDING_TOP = 8
    /\ layout.ROW_HEIGHT = 96
    /\ prev[1].layout = LAYOUT_CONSTANTS
    /\ NodesOfType(Result, "separator") = 2
    /\ NodesOfType(Result, "merge") = 2
    /\ NodesOfType(Result, "today") = 1
    /\ \A t \in NodeTypes : NodesOfType(Result, t) = NodesOfType(prev[1].result, t)

----------------------------------------------------------------------------
(* Lanes *)

(* The record a commit was made for *)
RecordOf(c) == posts[CHOOSE k \in 1..Len(posts) : posts[k].slug = nodes[c].slug]

(* C19: once the call has returned, every commit for a record with a       *)
(* primary tag (a non-empty first tag) has the x of the branch whose name  *)
(* is that tag, and every commit whose branch is "main" has x = MAIN_X.    *)
C19_CommitOnItsLane ==
    Returned =>
        \A c \in NodeIdx("commit") :
            /\ (HasPrimaryTag(RecordOf(c)) /\ PrimaryTag(RecordOf(c)) # Str_Empty)
                 => \E b \in 1..Len(branches) :
                        /\ branches[b].name = PrimaryTag(RecordOf(c))
                        /\ nodes[c].x = branches[b].x
            /\ nodes[c].branch = MainStr => nodes[c].x = MAIN_X

(* C20: once the call has returned with N tag branches, the main branch is *)
(* first with x = MAIN_X, the tag branch of rank i (from 0) has            *)
(* x = MAIN_X - (N - i) * BRANCH_SPACING, so every tag branch is strictly  *)
(* left of main, the x of the tag branches strictly increase with the      *)
(* rank, and the last tag branch is at MAIN_X - BRANCH_SPACING.            *)
C20_BranchX ==
    Returned =>
        LET N == Len(branches) - 1
        IN  /\ branches[1].x = MAIN_X
            /\ \A i \in 0..(N - 1) :
                 /\ branches[i + 2].x = MAIN_X - (N - i) * BRANCH_SPACING
                 /\ branches[i + 2].x < MAIN_X
            /\ \A i, j \in 0..(N - 1) : i < j => branches[i + 2].x < branches[j + 2].x
            /\ N >= 1 => branches[N + 1].x = MAIN_X - BRANCH_SPACING

C20_Witness ==
    /\ Returned
    /\ Len(branches) = 4
    /\ branches[2].x = MAIN_X - 3 * BRANCH_SPACING
    /\ branches[3].x = MAIN_X - 2 * BRANCH_SPACING
    /\ branches[4].x = MAIN_X - BRANCH_SPACING

(* C21: once the call has returned, the first branch (main) has the        *)
(* neutral colour, the tag branch of rank i (from 0) has the palette       *)
(* colour of index i mod 8, and two tag branches have the same colour      *)
(* exactly when their ranks are congruent modulo 8.                        *)
C21_PaletteByRank ==
    Returned =>
        LET N == Len(branches) - 1
        IN  /\ branches[1].color = "#6b7280"
            /\ \A i \in 0..(N - 1) : branches[i + 2].color = colors[(i % 8) + 1]
            /\ \A i, j \in 0..(N - 1) :
                 (branches[i + 2].color = branches[j + 2].color) <=> (i % 8 = j % 8)

C21_Witness ==
    /\ Returned
    /\ Len(branches) = 11
    /\ branches[2].color = branches[10].color
    /\ branches[3].color = branches[11].color
    /\ branches[2].color # branches[3].color
    /\ branches[1].color = "#6b7280"

----------------------------------------------------------------------------
(* Categories *)

AllowedSet == { Str_technology, Str_fitness, Str_life, Str_others }

(* The tags are a list of exactly one string *)
SingleTag(tags) == tags # None /\ Len(tags[1]) = 1

(* C22: once getPostCategory has returned, its result is the tag in lower  *)
(* case when the tags are exactly one tag whose lower-case form is an      *)
(* allowed category, it is 'others' for absent, empty, several or          *)
(* non-allowed tags, and it is always an allowed category.                 *)
C22_CategoryOfTags ==
    category # None =>
        LET tags == TagsOf(frontmatter)
            allowed == SingleTag(tags) /\ ToLowerCase(tags[1][1]) \in AllowedSet
        IN  /\ allowed => category[1] = ToLowerCase(tags[1][1])
            /\ ~allowed => category[1] = Str_others
            /\ category[1] \in AllowedSet

C22_Witness ==
    /\ category = Some(Str_technology)
    /\ TagsOf(frontmatter) = Some(<<Str_Technology>>)

(* C27: once the validator has accepted a file and the site has computed   *)
(* the category of its tags, the tags are exactly one tag, the category is *)
(* that tag as written, and it is 'others' only when the tag is 'others'.  *)
C27_ValidatorAgrees ==
    (valid # None /\ category # None /\ valid[1].valid) =>
        /\ SingleTag(TagsOf(frontmatter))
        /\ TagsOf(frontmatter)[1][1] \in AllowedSet
        /\ category[1] = TagsOf(frontmatter)[1][1]
        /\ category[1] = Str_others => TagsOf(frontmatter)[1][1] = Str_others

C27_Witness ==
    /\ valid # None
    /\ valid[1].valid
    /\ category = Some(Str_fitness)
    /\ TagsOf(frontmatter) = Some(<<Str_fitness>>)

----------------------------------------------------------------------------
(* The today marker under the shipped layout *)

(* C23: once the call has returned, for any list (in any order of dates)   *)
(* and any clock, a position was computed for the marker, there is exactly *)
(* one today node, its id is 'today-marker', its y is PADDING_TOP, and it  *)
(* is the last element of nodes.                                           *)
C23_OneTodayNodeLast ==
    Returned =>
        /\ TodayY(publishedPosts, today[1], tz) # None
        /\ Cardinality(NodeIdx("today")) = 1
        /\ nodes # <<>>
        /\ nodes[Len(nodes)].type = "today"
        /\ nodes[Len(nodes)].id = TodayMarkerId
        /\ nodes[Len(nodes)].y = PADDING_TOP

(* The first post is the oldest, and the clock is between the posts *)
C23_Witness ==
    /\ Returned
    /\ Len(NonDraft(posts)) = 3
    /\ DayOf(NonDraft(posts)[1]) < TodayDay
    /\ DayOf(NonDraft(posts)[3]) > TodayDay
    /\ NodeIdx("separator") # {}
    /\ NodeIdx("merge") # {}
    /\ nodes[Len(nodes)].type = "today"
    /\ nodes[Len(nodes)].y = PADDING_TOP

----------------------------------------------------------------------------
(* Branch lookup *)

(* C24: once the call has returned, the branch field of every commit and   *)
(* every merge is the id of exactly one element of branches.               *)
C24_BranchLookupUnambiguous ==
    Returned =>
        \A n \in NodeIdx("commit") \cup NodeIdx("merge") :
            Cardinality({ b \in 1..Len(branches) : branches[b].id = nodes[n].branch }) = 1

----------------------------------------------------------------------------
(* Drawing *)

(* C25: once the call has returned, the range GitGraph computes for the    *)
(* main rail contains the y of every commit and every merge whose branch   *)
(* is 'main'.                                                              *)
C25_MainRailCoversMainNodes ==
    Returned =>
        LET range == branchRanges(Result)[MainStr]
        IN  \A n \in NodeIdx("commit") \cup NodeIdx("merge") :
                nodes[n].branch = MainStr
                    => (range.minY <= nodes[n].y /\ nodes[n].y <= range.maxY)

(* C28: once the call has returned, the height GitGraph gives the SVG is   *)
(* at least y + PADDING_BOTTOM for the y of every node.                    *)
C28_HeightCoversNodes ==
    Returned =>
        \A k \in 1..Len(nodes) : height(Result) >= nodes[k].y + PADDING_BOTTOM

C28_Witness ==
    /\ Returned
    /\ Len(NonDraft(posts)) = 3
    /\ \E k \in 1..Len(nodes) : nodes[k].y = PADDING_TOP + 2 * ROW_HEIGHT
    /\ Len(nodes) = 7
    /\ height(Result) = 7 * ROW_HEIGHT + PADDING_TOP + PADDING_BOTTOM

----------------------------------------------------------------------------
(* Pages of the home page *)

(* The posts the home page shows for the same posts and tag query when the *)
(* page query is p                                                         *)
ShownOnPage(p) == HomeContent(posts, rawTag, Some(NumStr(p))).displayPosts

RECURSIVE ShownFrom(_, _)
ShownFrom(p, last) == IF p > last THEN <<>> ELSE ShownOnPage(p) \o ShownFrom(p + 1, last)

(* C26: once HomeContent has rendered, for any posts, tag query and page   *)
(* query, totalPages is max(1, ceil(|filteredPosts| / 5)), currentPage is  *)
(* in 1..totalPages, displayPosts holds at most 5 posts and is the         *)
(* currentPage-th run of 5 of filteredPosts, and the displayPosts of the   *)
(* pages 1..totalPages, one after the other, are exactly filteredPosts.    *)
C26_Pagination ==
    home # None =>
        LET h == home[1]
            n == Len(h.filteredPosts)
        IN  /\ h.totalPages = (IF n = 0 THEN 1 ELSE (n + 4) \div 5)
            /\ h.currentPage \in 1..h.totalPages
            /\ Len(h.displayPosts) <= 5
            /\ h.displayPosts =
                 SubSeq(h.filteredPosts, (h.currentPage - 1) * 5 + 1,
                        IF h.currentPage * 5 <= n THEN h.currentPage * 5 ELSE n)
            /\ ShownFrom(1, h.totalPages) = h.filteredPosts

(* A page beyond the last one of a filtered list of six posts *)
C26_Witness ==
    /\ home # None
    /\ rawPage = Some(<<"9","9">>)
    /\ home[1].activeTag = Some(Str_technology)
    /\ Len(home[1].filteredPosts) = 6
    /\ home[1].totalPages = 2
    /\ home[1].currentPage = 2
    /\ Len(home[1].displayPosts) = 1

====
